---- MODULE Spec2Model ----
(***************************************************************************)
(* baggins: staged discount / tax accumulators over exact decimals.        *)
(*                                                                         *)
(* A BigDecimal is modelled as the exact fraction <<n, d>> in lowest terms *)
(* with d > 0.  Addition, subtraction, multiplication and comparison of    *)
(* BigDecimal are exact; a division is exact whenever its quotient         *)
(* terminates (every division by 100.0 does), and is otherwise cut by the  *)
(* library at 100 significant digits, which the model does not show: it    *)
(* keeps the exact quotient.  A division by zero aborts the call (panic).  *)
(***************************************************************************)
EXTENDS Integers, Sequences, FiniteSets, TLC

VARIABLES discount, tax, last

vars == <<discount, tax, last>>

----------------------------------------------------------------------------
(* Bounds of the model *)

\* an accepted add_discount keeps percentual + amount_line + amount_unit within this
MaxDiscountTotal == 120
\* an accepted add_tax keeps the sum of the nine stage fields within this
MaxTaxTotal == 28

----------------------------------------------------------------------------
(* BigDecimal arithmetic *)

Abs(x) == IF x < 0 THEN -x ELSE x

RECURSIVE gcd(_, _)
gcd(a, b) == IF b = 0 THEN a ELSE gcd(b, a % b)

\* the decimal n/d, in lowest terms
dec(n, d) ==
    LET g == gcd(Abs(n), Abs(d))
        s == IF d < 0 THEN -1 ELSE 1
    IN  <<(s * n) \div g, (s * d) \div g>>

zero == dec(0, 1)
one == dec(1, 1)
hundred == dec(100, 1)

\* Option<BigDecimal>::None, and the absent argument of a call
None == <<>>

\* the operations cancel common factors before they multiply, which keeps the
\* integers of the model small; the values are those of the plain formulas
common(a, b) == IF a = 1 \/ b = 1 THEN 1 ELSE gcd(a, b)
plus(x, y) ==
    LET g == common(x[2], y[2])
    IN  dec(x[1] * (y[2] \div g) + y[1] * (x[2] \div g), (x[2] \div g) * y[2])
minus(x, y) ==
    LET g == common(x[2], y[2])
    IN  dec(x[1] * (y[2] \div g) - y[1] * (x[2] \div g), (x[2] \div g) * y[2])
times(x, y) ==
    LET g1 == common(y[2], Abs(x[1]))
        g2 == common(x[2], Abs(y[1]))
    IN  dec((x[1] \div g1) * (y[1] \div g2), (x[2] \div g2) * (y[2] \div g1))
\* only applied to y # zero: the callers model the panic of a zero divisor
over(x, y) ==
    LET g1 == common(Abs(y[1]), Abs(x[1]))
        g2 == common(x[2], y[2])
    IN  dec((x[1] \div g1) * (y[2] \div g2), (x[2] \div g2) * (y[1] \div g1))
lt(x, y) ==
    LET g == common(x[2], y[2])
    IN  x[1] * (y[2] \div g) < y[1] * (x[2] \div g)
gt(x, y) == lt(y, x)

----------------------------------------------------------------------------
(* f64 inputs: finite values are the fractions they denote (the model draws *)
(* only values a double holds exactly), NaN is <<0, 0>>.                   *)

NaN == <<0, 0>>
is_nan(x) == x[2] = 0
\* an f64 comparison with NaN is false
f64_lt(x, y) == ~is_nan(x) /\ ~is_nan(y) /\ lt(x, y)
f64_gt(x, y) == f64_lt(y, x)
\* BigDecimal::from_f64: None for NaN, the exact value of a finite double
from_f64(x) == IF is_nan(x) THEN None ELSE x
unwrap_or(opt, default) == IF opt = None THEN default ELSE opt

----------------------------------------------------------------------------
(* discount::Mode, tax::Mode, tax::Stage *)

Modes == {"Percentual", "AmountLine", "AmountUnit"}
Stages == {"OverTaxable", "OverTax", "OverTaxIgnorable"}

----------------------------------------------------------------------------
(* DiscountComputer *)

DiscountComputer_new ==
    [percentual |-> zero, amount_line |-> zero, amount_unit |-> zero]

\* the accumulator after the match of add_discount
discount_added(self, discount_mode, amount) ==
    CASE discount_mode = "Percentual" ->
            [self EXCEPT !.percentual = plus(self.percentual, amount)]
      [] discount_mode = "AmountLine" ->
            [self EXCEPT !.amount_line = plus(self.amount_line, amount)]
      [] discount_mode = "AmountUnit" ->
            [self EXCEPT !.amount_unit = plus(self.amount_unit, amount)]

\* add_discount without its negative-value check
add_discount_unchecked(self, amount, discount_mode) ==
    IF gt(amount, hundred) /\ discount_mode = "Percentual"
    THEN [err |-> "OverMaxDiscount", self |-> self]
    ELSE [err |-> "None", self |-> discount_added(self, discount_mode, amount)]

\* add_discount that holds the cumulative percentual, not the amount, to 100
add_discount_capping_total(self, amount, discount_mode) ==
    IF lt(amount, zero)
    THEN [err |-> "NegativeValue", self |-> self]
    ELSE IF gt(plus(self.percentual, amount), hundred) /\ discount_mode = "Percentual"
    THEN [err |-> "OverMaxDiscount", self |-> self]
    ELSE [err |-> "None", self |-> discount_added(self, discount_mode, amount)]

\* Discounter::add_discount: the error returned (or "None") and the accumulator left
add_discount(self, amount, discount_mode) ==
    IF lt(amount, zero)
    THEN [err |-> "NegativeValue", self |-> self]
    ELSE IF gt(amount, hundred) /\ discount_mode = "Percentual"
    THEN [err |-> "OverMaxDiscount", self |-> self]
    ELSE [err |-> "None", self |-> discount_added(self, discount_mode, amount)]

\* Discounter::add_discount_from_f64
add_discount_from_f64(self, amount, discount_mode) ==
    IF f64_lt(amount, zero)
    THEN [err |-> "NegativeValue", self |-> self]
    ELSE IF f64_gt(amount, hundred) /\ discount_mode = "Percentual"
    THEN [err |-> "OverMaxDiscount", self |-> self]
    ELSE [err |-> "None",
          self |-> discount_added(self, discount_mode,
                                  unwrap_or(from_f64(amount), zero))]

----------------------------------------------------------------------------
(* Result *)

\* Ok(...) and Err(...) of a Result: err is "None" on Ok, the values are in out
Ok(out) == [err |-> "None", out |-> out]
Err(kind) == [err |-> kind, out |-> <<>>]

\* discount_value with the per-line and per-unit amounts taken for each other
discount_value_swapped(self, unit_value, qty) ==
    plus(plus(over(times(times(unit_value, qty), self.percentual), hundred),
              times(self.amount_line, qty)),
         self.amount_unit)

\* discount_value of Discounter::compute
discount_value(self, unit_value, qty) ==
    plus(plus(over(times(times(unit_value, qty), self.percentual), hundred),
              times(self.amount_unit, qty)),
         self.amount_line)

\* Discounter::compute: Ok(<<discount_value, percentual_discount>>) or the error
compute(self, unit_value, qty, max_discount_allowed) ==
    LET max == unwrap_or(max_discount_allowed, hundred)
        dv == discount_value(self, unit_value, qty)
        percentual_discount == over(minus(times(unit_value, qty), dv), hundred)
    IN  IF lt(max, zero) THEN Err("NegativeValue")
        ELSE IF lt(unit_value, zero) THEN Err("NegativeValue")
        ELSE IF lt(qty, zero) THEN Err("NegativeValue")
        ELSE IF gt(dv, max) THEN Err("OverMaxDiscount")
        ELSE IF gt(percentual_discount, hundred) THEN Err("OverMaxDiscount")
        ELSE IF lt(percentual_discount, zero) THEN Err("NegativeValue")
        ELSE Ok(<<dv, percentual_discount>>)

\* discountable of Discounter::un_discount
discountable_of(self, discounted, qty) ==
    LET percentual == IF gt(self.percentual, zero) THEN self.percentual ELSE one
    IN  plus(times(over(plus(discounted, self.amount_line), percentual), hundred),
             times(qty, self.amount_unit))

\* Discounter::un_discount: Ok(<<discountable, discount removed, percentual>>),
\* the error, or "Panic" when percentual_discount divides by a zero discountable
un_discount(self, discounted, qty) ==
    LET discountable == discountable_of(self, discounted, qty)
    IN  IF lt(discounted, zero) THEN Err("NegativeValue")
        ELSE IF lt(qty, zero) THEN Err("NegativeValue")
        ELSE IF discountable = zero THEN Err("Panic")
        ELSE Ok(<<discountable,
                  minus(discountable, discounted),
                  over(times(minus(discountable, discounted), hundred),
                       discountable)>>)

----------------------------------------------------------------------------
(* TaxStage and TaxComputer *)

TaxStage_new ==
    [percentuals |-> zero, amount_line |-> zero, amount_unit |-> zero]

TaxComputer_new ==
    [over_taxable |-> TaxStage_new,
     over_tax |-> TaxStage_new,
     over_tax_ignorable |-> TaxStage_new]

\* add_percentual without its negative-value check
add_percentual_unchecked(self, percent) ==
    [err |-> "None",
     self |-> [self EXCEPT !.percentuals = plus(self.percentuals, percent)]]

\* Stager::add_percentual
add_percentual(self, percent) ==
    IF lt(percent, zero)
    THEN [err |-> "NegativeValue", self |-> self]
    ELSE [err |-> "None",
          self |-> [self EXCEPT !.percentuals = plus(self.percentuals, percent)]]

\* Stager::add_amount_by_qty
add_amount_by_qty(self, amount) ==
    IF lt(amount, zero)
    THEN [err |-> "NegativeValue", self |-> self]
    ELSE [err |-> "None",
          self |-> [self EXCEPT !.amount_unit = plus(self.amount_unit, amount)]]

\* add_amount_by_line that adds to the per-unit amount
add_amount_by_line_to_unit(self, amount) ==
    IF lt(amount, zero)
    THEN [err |-> "NegativeValue", self |-> self]
    ELSE [err |-> "None",
          self |-> [self EXCEPT !.amount_unit = plus(self.amount_unit, amount)]]

\* Stager::add_amount_by_line
add_amount_by_line(self, amount) ==
    IF lt(amount, zero)
    THEN [err |-> "NegativeValue", self |-> self]
    ELSE [err |-> "None",
          self |-> [self EXCEPT !.amount_line = plus(self.amount_line, amount)]]

\* the add of one stage that add_tax selects by mode
stage_add(st, amount, mode) ==
    CASE mode = "Percentual" -> add_percentual(st, amount)
      [] mode = "AmountLine" -> add_amount_by_line(st, amount)
      [] mode = "AmountUnit" -> add_amount_by_qty(st, amount)

\* Taxer::add_tax: the error returned (or "None") and the TaxComputer left
add_tax(self, amount, stage, mode) ==
    CASE stage = "OverTaxable" ->
            LET r == stage_add(self.over_taxable, amount, mode)
            IN  [err |-> r.err, self |-> [self EXCEPT !.over_taxable = r.self]]
      [] stage = "OverTax" ->
            LET r == stage_add(self.over_tax, amount, mode)
            IN  [err |-> r.err, self |-> [self EXCEPT !.over_tax = r.self]]
      [] stage = "OverTaxIgnorable" ->
            LET r == stage_add(self.over_tax_ignorable, amount, mode)
            IN  [err |-> r.err, self |-> [self EXCEPT !.over_tax_ignorable = r.self]]

\* Stager::tax without its check of a negative quantity
stage_tax_no_qty_check(self, taxable, qty) ==
    IF lt(taxable, zero) THEN Err("NegativeValue")
    ELSE IF taxable = zero THEN Ok(<<zero>>)
    ELSE Ok(<<plus(times(plus(over(times(taxable, self.percentuals), hundred),
                              self.amount_unit),
                         qty),
                   self.amount_line)>>)

\* Stager::tax that charges the per-line amount once per unit
stage_tax_line_by_qty(self, taxable, qty) ==
    IF lt(taxable, zero) THEN Err("NegativeValue")
    ELSE IF lt(qty, zero) THEN Err("NegativeValue")
    ELSE IF taxable = zero THEN Ok(<<zero>>)
    ELSE Ok(<<times(plus(plus(over(times(taxable, self.percentuals), hundred),
                              self.amount_unit),
                         self.amount_line),
                    qty)>>)

\* Stager::tax without the return of zero for a zero taxable
stage_tax_no_short_circuit(self, taxable, qty) ==
    IF lt(taxable, zero) THEN Err("NegativeValue")
    ELSE IF lt(qty, zero) THEN Err("NegativeValue")
    ELSE Ok(<<plus(times(plus(over(times(taxable, self.percentuals), hundred),
                              self.amount_unit),
                         qty),
                   self.amount_line)>>)

\* Stager::tax of one TaxStage
stage_tax(self, taxable, qty) ==
    IF lt(taxable, zero) THEN Err("NegativeValue")
    ELSE IF lt(qty, zero) THEN Err("NegativeValue")
    ELSE IF taxable = zero THEN Ok(<<zero>>)
    ELSE Ok(<<plus(times(plus(over(times(taxable, self.percentuals), hundred),
                              self.amount_unit),
                         qty),
                   self.amount_line)>>)

\* Taxer::tax that charges the over_tax stage on the over_taxable tax alone
tax_of_on_tax_alone(self, unit_value, qty) ==
    LET t1 == stage_tax(self.over_taxable, unit_value, qty)
    IN  IF t1.err # "None" THEN t1
        ELSE LET t2 == stage_tax(self.over_tax, t1.out[1], qty)
             IN  IF t2.err # "None" THEN t2
                 ELSE LET t3 == stage_tax(self.over_tax_ignorable, unit_value, qty)
                      IN  IF t3.err # "None" THEN t3
                          ELSE Ok(<<plus(plus(t1.out[1], t2.out[1]), t3.out[1])>>)

\* Taxer::tax of the TaxComputer: the three stages in the order of the match
tax_of(self, unit_value, qty) ==
    LET t1 == stage_tax(self.over_taxable, unit_value, qty)
    IN  IF t1.err # "None" THEN t1
        ELSE LET t2 == stage_tax(self.over_tax, plus(t1.out[1], unit_value), qty)
             IN  IF t2.err # "None" THEN t2
                 ELSE LET t3 == stage_tax(self.over_tax_ignorable, unit_value, qty)
                      IN  IF t3.err # "None" THEN t3
                          ELSE Ok(<<plus(plus(t1.out[1], t2.out[1]), t3.out[1])>>)

\* Taxer::line_tax with the per-line and per-unit amounts taken for each other
line_tax_amounts_swapped(taxable, qty, value, mode) ==
    IF lt(taxable, zero) THEN Err("NegativeValue")
    ELSE IF lt(qty, zero) THEN Err("NegativeValue")
    ELSE CASE mode = "Percentual" ->
                 Ok(<<over(times(times(taxable, qty), value), hundred)>>)
           [] mode = "AmountLine" -> Ok(<<value>>)
           [] mode = "AmountUnit" -> Ok(<<times(qty, value)>>)

\* Taxer::line_tax
line_tax(taxable, qty, value, mode) ==
    IF lt(taxable, zero) THEN Err("NegativeValue")
    ELSE IF lt(qty, zero) THEN Err("NegativeValue")
    ELSE CASE mode = "Percentual" ->
                 Ok(<<over(times(times(taxable, qty), value), hundred)>>)
           [] mode = "AmountLine" -> Ok(<<times(qty, value)>>)
           [] mode = "AmountUnit" -> Ok(<<value>>)

\* numerator of Taxer::un_tax, in the order the expression is evaluated
un_tax_numerator(self, taxed, qty) ==
    LET b == times(self.over_taxable.amount_unit, qty)
        c == self.over_taxable.amount_line
        d == over(self.over_tax.percentuals, hundred)
        e == times(self.over_tax.amount_unit, qty)
        f == self.over_tax.amount_line
        h == times(self.over_tax_ignorable.amount_unit, qty)
        i == self.over_tax_ignorable.amount_line
    IN  minus(minus(minus(plus(plus(plus(minus(taxed, times(b, d)), b), e), h),
                          times(c, plus(d, one))),
                    f),
              i)

\* denominator of Taxer::un_tax
un_tax_denominator(self) ==
    LET a == over(self.over_taxable.percentuals, hundred)
        d == over(self.over_tax.percentuals, hundred)
        g == over(self.over_tax_ignorable.percentuals, hundred)
    IN  plus(plus(plus(plus(plus(a, d), a), g), d), one)

\* Taxer::un_tax of the TaxComputer; a zero denominator would abort the call
un_tax(self, taxed, qty) ==
    IF lt(qty, zero) THEN Err("NegativeValue")
    ELSE IF un_tax_denominator(self) = zero THEN Err("Panic")
    ELSE Ok(<<over(un_tax_numerator(self, taxed, qty), un_tax_denominator(self))>>)

\* Taxer::ratio that relates the tax to the taxed value alone
ratio_over_taxed(taxed, tax_value) ==
    IF taxed = zero /\ tax_value = zero THEN Err("DivisionByZero")
    ELSE IF taxed = zero THEN Err("Panic")
    ELSE Ok(<<over(times(hundred, tax_value), taxed)>>)

\* Taxer::ratio; the division aborts the call when taxed + tax is zero
ratio(taxed, tax_value) ==
    IF taxed = zero /\ tax_value = zero THEN Err("DivisionByZero")
    ELSE IF plus(taxed, tax_value) = zero THEN Err("Panic")
    ELSE Ok(<<over(times(hundred, tax_value), plus(taxed, tax_value))>>)

\* the TaxStage a Stage names: over_taxables(), over_taxes(), over_tax_ignorables()
stage_of(self, stage) ==
    CASE stage = "OverTaxable" -> self.over_taxable
      [] stage = "OverTax" -> self.over_tax
      [] stage = "OverTaxIgnorable" -> self.over_tax_ignorable

----------------------------------------------------------------------------
(* The state machine: one DiscountComputer, one TaxComputer, and the last   *)
(* call made with its arguments and what it returned.                      *)

\* the sum of the fields of an accumulator
field_total(acc, pct) == plus(pct, plus(acc.amount_line, acc.amount_unit))
discount_total(d) == field_total(d, d.percentual)
stage_total(st) == field_total(st, st.percentuals)
tax_total(t) ==
    plus(stage_total(t.over_taxable),
         plus(stage_total(t.over_tax), stage_total(t.over_tax_ignorable)))

\* the record of a call: absent arguments are None / "None"; unit_value holds
\* the amount the call works on (its unit_value, taxable or discounted), value
\* the rate handed to an add or to line_tax, out the values of an Ok
Call(op, stage, mode, value, unit_value, qty, max, err, out) ==
    [op |-> op, stage |-> stage, mode |-> mode, value |-> value,
     unit_value |-> unit_value, qty |-> qty, max |-> max, err |-> err, out |-> out]

\* amounts a caller adds as a discount
DiscountAmounts == {dec(-1, 1), dec(40, 1), dec(101, 1)}
\* f64 amounts a caller adds as a discount
DiscountAmountsF64 == {dec(-1, 2), dec(40, 1), dec(101, 1), NaN}
\* amounts a caller adds as a tax
TaxAmounts == {dec(-1, 1), dec(10, 1), dec(18, 1)}

Init ==
    /\ discount = DiscountComputer_new
    /\ tax = TaxComputer_new
    /\ last = Call("new", "None", "None", None, None, None, None, "None", <<>>)

\* discount.add_discount(amount, mode); an accepted add is taken only while the
\* accumulator stays within MaxDiscountTotal, a rejected one always
AddDiscount(amount, mode) ==
    LET r == add_discount(discount, amount, mode)
    IN  /\ ~gt(discount_total(r.self), dec(MaxDiscountTotal, 1))
        /\ discount' = r.self
        /\ last' = Call("add_discount", "None", mode, amount, None, None, None,
                        r.err, <<>>)
        /\ UNCHANGED tax

\* discount.add_discount_from_f64(amount, mode)
AddDiscountFromF64(amount, mode) ==
    LET r == add_discount_from_f64(discount, amount, mode)
    IN  /\ ~gt(discount_total(r.self), dec(MaxDiscountTotal, 1))
        /\ discount' = r.self
        /\ last' = Call("add_discount_from_f64", "None", mode, amount, None, None,
                        None, r.err, <<>>)
        /\ UNCHANGED tax

\* tax.add_tax(amount, stage, mode); an accepted add is taken only while the
\* nine fields stay within MaxTaxTotal, a rejected one always
AddTax(amount, stage, mode) ==
    LET r == add_tax(tax, amount, stage, mode)
    IN  /\ ~gt(tax_total(r.self), dec(MaxTaxTotal, 1))
        /\ tax' = r.self
        /\ last' = Call("add_tax", stage, mode, amount, None, None, None,
                        r.err, <<>>)
        /\ UNCHANGED discount

DoAddDiscount == \E a \in DiscountAmounts, m \in Modes : AddDiscount(a, m)
DoAddDiscountFromF64 ==
    \E a \in DiscountAmountsF64, m \in Modes : AddDiscountFromF64(a, m)
DoAddTax == \E a \in TaxAmounts, s \in Stages, m \in Modes : AddTax(a, s, m)

NextAdd == DoAddDiscount \/ DoAddDiscountFromF64 \/ DoAddTax

SpecAdd == Init /\ [][NextAdd]_vars

----------------------------------------------------------------------------
(* Calls that compute *)

\* unit values, quantities and caps a caller hands to the DiscountComputer
UnitValues == {dec(-1, 1), zero, dec(100, 1), dec(200, 1), dec(10001, 1)}
Quantities == {dec(-1, 1), zero, one, dec(2, 1)}
MaxDiscounts == {None, dec(-1, 1), dec(40, 1), dec(300, 1)}
\* discounted values a caller hands to un_discount
Discounteds == {dec(-1, 1), zero, dec(20, 1), dec(60, 1), dec(100, 1), dec(120, 1)}
\* taxables, quantities and ad-hoc rates a caller hands to the tax calls
Taxables == {dec(-1, 1), zero, dec(50, 1)}
TaxQuantities == {dec(-1, 1), zero, dec(2, 1)}
LineValues == {dec(10, 1)}

\* discount.compute(unit_value, qty, max)
Compute(unit_value, qty, max) ==
    LET r == compute(discount, unit_value, qty, max)
    IN  /\ last' = Call("compute", "None", "None", None, unit_value, qty, max,
                        r.err, r.out)
        /\ UNCHANGED <<discount, tax>>

\* discount.un_discount(discounted, qty)
UnDiscount(discounted, qty) ==
    LET r == un_discount(discount, discounted, qty)
    IN  /\ last' = Call("un_discount", "None", "None", None, discounted, qty, None,
                        r.err, r.out)
        /\ UNCHANGED <<discount, tax>>

\* Stager::tax(taxable, qty) of the stage the TaxComputer hands out
StageTax(stage, taxable, qty) ==
    LET r == stage_tax(stage_of(tax, stage), taxable, qty)
    IN  /\ last' = Call("stage_tax", stage, "None", None, taxable, qty, None,
                        r.err, r.out)
        /\ UNCHANGED <<discount, tax>>

\* tax.tax(unit_value, qty) that uses its &mut self to empty the over_taxable
\* stage it has charged
Tax_taking_stage(unit_value, qty) ==
    LET r == tax_of(tax, unit_value, qty)
    IN  /\ last' = Call("tax", "None", "None", None, unit_value, qty, None,
                        r.err, r.out)
        /\ tax' = [tax EXCEPT !.over_taxable = TaxStage_new]
        /\ UNCHANGED discount

\* tax.tax(unit_value, qty)
Tax(unit_value, qty) ==
    LET r == tax_of(tax, unit_value, qty)
    IN  /\ last' = Call("tax", "None", "None", None, unit_value, qty, None,
                        r.err, r.out)
        /\ UNCHANGED <<discount, tax>>

\* tax.line_tax(taxable, qty, value, mode)
LineTax(taxable, qty, value, mode) ==
    LET r == line_tax(taxable, qty, value, mode)
    IN  /\ last' = Call("line_tax", "None", mode, value, taxable, qty, None,
                        r.err, r.out)
        /\ UNCHANGED <<discount, tax>>

DoCompute ==
    \E u \in UnitValues, q \in Quantities, m \in MaxDiscounts : Compute(u, q, m)
DoUnDiscount == \E v \in Discounteds, q \in Quantities : UnDiscount(v, q)
DoStageTax ==
    \E s \in Stages, t \in Taxables, q \in TaxQuantities : StageTax(s, t, q)
DoTax == \E u \in Taxables, q \in TaxQuantities : Tax(u, q)
DoLineTax ==
    \E t \in Taxables, q \in TaxQuantities, v \in LineValues, m \in Modes :
        LineTax(t, q, v, m)

\* the DiscountComputer alone
NextDiscount == DoAddDiscount \/ DoAddDiscountFromF64 \/ DoCompute \/ DoUnDiscount
SpecDiscount == Init /\ [][NextDiscount]_vars

\* the TaxComputer alone
NextTax == DoAddTax \/ DoStageTax \/ DoTax \/ DoLineTax
SpecTax == Init /\ [][NextTax]_vars

\* every forward computation with a small set of rates: the rejection of a
\* negative input does not read the rates
NextForward ==
    \/ \E m \in Modes : AddDiscount(dec(40, 1), m)
    \/ \E st \in Stages, m \in Modes : AddTax(dec(18, 1), st, m)
    \/ \E u \in Taxables, q \in TaxQuantities, m \in {None, dec(-1, 1)} :
          Compute(u, q, m)
    \/ DoStageTax
    \/ DoTax
    \/ DoLineTax
SpecForward == Init /\ [][NextForward]_vars

----------------------------------------------------------------------------
(* The inverse of the tax, and the ratio of a tax *)

\* taxed values and quantities a caller hands to un_tax
Taxeds == {dec(-1, 1), zero, dec(50, 1), dec(59, 1), dec(60, 1), dec(118, 1)}
UnTaxQuantities == {dec(-1, 1), zero, one, dec(2, 1)}
\* taxed values and taxes a caller hands to ratio
RatioValues == {dec(-100, 1), zero, dec(50, 1), dec(100, 1)}

\* tax.un_tax(taxed, qty)
UnTax(taxed, qty) ==
    LET r == un_tax(tax, taxed, qty)
    IN  /\ last' = Call("un_tax", "None", "None", None, taxed, qty, None,
                        r.err, r.out)
        /\ UNCHANGED <<discount, tax>>

\* TaxComputer::ratio(taxed, tax): taxed is kept in unit_value, tax in value
Ratio(taxed, tax_value) ==
    LET r == ratio(taxed, tax_value)
    IN  /\ last' = Call("ratio", "None", "None", tax_value, taxed, None, None,
                        r.err, r.out)
        /\ UNCHANGED <<discount, tax>>

DoUnTax == \E t \in Taxeds, q \in UnTaxQuantities : UnTax(t, q)
DoRatio == \E t \in RatioValues, v \in RatioValues : Ratio(t, v)

\* the TaxComputer with its inverse
NextUnTax == DoAddTax \/ DoTax \/ DoUnTax \/ DoRatio
SpecUnTax == Init /\ [][NextUnTax]_vars

----------------------------------------------------------------------------
(* Calculation and DetailCalculator.  The calculator owns the two           *)
(* accumulators: discount is its discount_handler, tax its tax_handler.     *)

\* BigDecimal::round ties: away from zero in bigdecimal 0.3, to even from 0.4
RoundingModes == {"HalfUp", "HalfEven"}

RECURSIVE pow10(_)
pow10(k) == IF k = 0 THEN 1 ELSE 10 * pow10(k - 1)

\* n without its factors p
RECURSIVE without_factor(_, _)
without_factor(n, p) == IF n % p = 0 THEN without_factor(n \div p, p) ELSE n

\* the number of decimal places of a decimal whose expansion ends
RECURSIVE decimal_places(_, _)
decimal_places(x, k) ==
    IF pow10(k) % x[2] = 0 THEN k ELSE decimal_places(x, k + 1)

\* x has at most scale decimal places
fits_scale(x, scale) ==
    /\ without_factor(without_factor(x[2], 2), 5) = 1
    /\ decimal_places(x, 0) <= scale

\* BigDecimal::round: x when it has no more than scale decimal places, else
\* the nearest multiple of 10^-scale, a tie going as the rounding mode says
round(x, scale, rounding) ==
    IF fits_scale(x, scale) THEN x
    ELSE LET m == pow10(scale)
             num == Abs(x[1]) * m
             q == num \div x[2]
             r == num % x[2]
             up == \/ 2 * r > x[2]
                   \/ 2 * r = x[2] /\ (rounding = "HalfUp" \/ q % 2 = 1)
             mag == IF up THEN q + 1 ELSE q
         IN  dec(IF x[1] < 0 THEN -mag ELSE mag, m)

\* Calculation::round that copies the unit value as it is
Calculation_round_keeping_unit_value(calc, scale, rounding) ==
    [field \in DOMAIN calc |->
        IF field = "unit_value" THEN calc[field]
        ELSE round(calc[field], scale, rounding)]

\* Calculation::round
Calculation_round(calc, scale, rounding) ==
    [field \in DOMAIN calc |-> round(calc[field], scale, rounding)]

\* the results of the calculator: a Calculation (calc is the Calculation built
\* before round, out holds the rounded one returned), BagginsError::Other with
\* the call that failed and its error, or the abort of a division by zero
CalcOk(calc, rounded) ==
    [err |-> "None", cause |-> <<>>, out |-> <<rounded>>, calc |-> <<calc>>]
CalcErr(failed, e) ==
    [err |-> "Other", cause |-> <<failed, e>>, out |-> <<>>, calc |-> <<>>]
CalcPanic == [err |-> "Panic", cause |-> <<>>, out |-> <<>>, calc |-> <<>>]

\* discount_handler.compute(unit_value, qty): the discount value of the
\* Discount Accumulator, with its default cap
discount_handler_compute(self, unit_value, qty) ==
    LET r == compute(self, unit_value, qty, None)
    IN  IF r.err = "None" THEN Ok(<<r.out[1]>>) ELSE r

\* tax_handler.compute(unit_value, qty): the tax of the Tax Orchestrator
tax_handler_compute(self, unit_value, qty) == tax_of(self, unit_value, qty)

\* tax_handler.un_tax(brute, qty): the inverse of the Tax Orchestrator
tax_handler_un_tax(self, brute, qty) == un_tax(self, brute, qty)

\* discount_handler.un_discount(net, qty): the discountable value the Discount
\* Accumulator recovers
discount_handler_un_discount(self, net, qty) ==
    LET r == un_discount(self, net, qty)
    IN  IF r.err = "None" THEN Ok(<<r.out[1]>>) ELSE r

\* the scale compute and compute_from_brute round to
scale_of(scale) == IF scale < 0 THEN 32 ELSE scale

\* the Calculation of DetailCalculator::compute with the discount added to the net
Calculation_of_adding_discount(unit_value, qty, d, tx, tx_wout) ==
    LET net == plus(times(unit_value, qty), d)
        net_wout == times(unit_value, qty)
    IN  [brute |-> plus(net, tx),
         total_discount_percent |-> over(times(hundred, d), net_wout),
         net |-> net,
         brute_wout_disc |-> plus(net_wout, tx_wout),
         net_wout_disc |-> net_wout,
         tax_wout_disc |-> tx_wout,
         discount |-> d,
         tax |-> tx,
         unit_value |-> unit_value]

\* the Calculation of DetailCalculator::compute, before round
Calculation_of(unit_value, qty, d, tx, tx_wout) ==
    LET net == minus(times(unit_value, qty), d)
        net_wout == times(unit_value, qty)
    IN  [brute |-> plus(net, tx),
         total_discount_percent |-> over(times(hundred, d), net_wout),
         net |-> net,
         brute_wout_disc |-> plus(net_wout, tx_wout),
         net_wout_disc |-> net_wout,
         tax_wout_disc |-> tx_wout,
         discount |-> d,
         tax |-> tx,
         unit_value |-> unit_value]

\* DetailCalculator::compute that taxes the undiscounted unit value
DetailCalculator_compute_tax_on_full(self, unit_value, qty, scale, rounding) ==
    LET r == discount_handler_compute(self.discount_handler, unit_value, qty)
    IN  IF r.err # "None" THEN CalcErr("discount", r.err)
        ELSE IF qty = zero THEN CalcPanic
        ELSE LET tx == tax_handler_compute(self.tax_handler, unit_value, qty)
             IN  IF tx.err # "None" THEN CalcErr("tax", tx.err)
                 ELSE IF times(unit_value, qty) = zero THEN CalcPanic
                 ELSE LET calc == Calculation_of(unit_value, qty, r.out[1],
                                                 tx.out[1], tx.out[1])
                      IN  CalcOk(calc, Calculation_round(calc, scale_of(scale),
                                                         rounding))

\* DetailCalculator::compute that asks for the taxes before the discount
DetailCalculator_compute_taxing_first(self, unit_value, qty, scale, rounding) ==
    LET tx_wout == tax_handler_compute(self.tax_handler, unit_value, qty)
    IN  IF tx_wout.err # "None" THEN CalcErr("tax", tx_wout.err)
        ELSE LET r == discount_handler_compute(self.discount_handler,
                                               unit_value, qty)
             IN  IF r.err # "None" THEN CalcErr("discount", r.err)
                 ELSE IF qty = zero \/ unit_value = zero THEN CalcPanic
                 ELSE LET d == r.out[1]
                          net == minus(times(unit_value, qty), d)
                          tx == tax_handler_compute(self.tax_handler,
                                                    over(net, qty), qty)
                      IN  IF tx.err # "None" THEN CalcErr("tax", tx.err)
                          ELSE LET calc == Calculation_of(unit_value, qty, d,
                                                          tx.out[1],
                                                          tx_wout.out[1])
                               IN  CalcOk(calc,
                                          Calculation_round(calc, scale_of(scale),
                                                            rounding))

\* DetailCalculator::compute
DetailCalculator_compute(self, unit_value, qty, scale, rounding) ==
    LET r == discount_handler_compute(self.discount_handler, unit_value, qty)
    IN  IF r.err # "None" THEN CalcErr("discount", r.err)
        ELSE IF qty = zero THEN CalcPanic
        ELSE LET d == r.out[1]
                 net == minus(times(unit_value, qty), d)
                 discounted_uv == over(net, qty)
                 tx == tax_handler_compute(self.tax_handler, discounted_uv, qty)
             IN  IF tx.err # "None" THEN CalcErr("tax", tx.err)
                 ELSE LET tx_wout == tax_handler_compute(self.tax_handler,
                                                         unit_value, qty)
                      IN  IF tx_wout.err # "None"
                          THEN CalcErr("tax without discount", tx_wout.err)
                          ELSE IF times(unit_value, qty) = zero THEN CalcPanic
                          ELSE LET calc == Calculation_of(unit_value, qty, d,
                                                          tx.out[1], tx_wout.out[1])
                               IN  CalcOk(calc,
                                          Calculation_round(calc, scale_of(scale),
                                                            rounding))

\* DetailCalculator::compute_from_brute that removes the discount before the tax
DetailCalculator_compute_from_brute_discount_first(self, brute, qty, scale, rounding) ==
    LET u == discount_handler_un_discount(self.discount_handler, brute, qty)
    IN  IF u.err = "Panic" THEN CalcPanic
        ELSE IF u.err # "None" THEN CalcErr("un_discount", u.err)
        ELSE LET r == tax_handler_un_tax(self.tax_handler, u.out[1], qty)
             IN  IF r.err = "Panic" THEN CalcPanic
                 ELSE IF r.err # "None" THEN CalcErr("un_tax", r.err)
                 ELSE DetailCalculator_compute(self, r.out[1], qty,
                                               scale_of(scale), rounding)

\* DetailCalculator::compute_from_brute
DetailCalculator_compute_from_brute(self, brute, qty, scale, rounding) ==
    LET r == tax_handler_un_tax(self.tax_handler, brute, qty)
    IN  IF r.err = "Panic" THEN CalcPanic
        ELSE IF r.err # "None" THEN CalcErr("un_tax", r.err)
        ELSE LET u == discount_handler_un_discount(self.discount_handler,
                                                   r.out[1], qty)
             IN  IF u.err = "Panic" THEN CalcPanic
                 ELSE IF u.err # "None" THEN CalcErr("un_discount", u.err)
                 ELSE DetailCalculator_compute(self, u.out[1], qty,
                                               scale_of(scale), rounding)

\* the DetailCalculator of the state
calculator == [discount_handler |-> discount, tax_handler |-> tax]

\* the record of a call of the calculator
LineCall(op, unit_value, qty, scale, rounding, r) ==
    [op |-> op, stage |-> "None", mode |-> "None", value |-> None,
     unit_value |-> unit_value, qty |-> qty, max |-> None,
     scale |-> scale, rounding |-> rounding,
     err |-> r.err, cause |-> r.cause, out |-> r.out, calc |-> r.calc]

\* unit values, quantities, gross values and scales a caller hands to the calculator
LineUnitValues == {dec(-1, 1), zero, dec(50, 1)}
LineQuantities == {dec(-1, 1), zero, dec(2, 1)}
Brutes == {dec(-1, 1), zero, dec(10, 1), dec(100, 1), dec(118, 1)}
Scales == {-1, 2}
BruteScales == {2}

\* calculator.compute(unit_value, qty, scale)
LineCompute(unit_value, qty, scale, rounding) ==
    LET r == DetailCalculator_compute(calculator, unit_value, qty, scale, rounding)
    IN  /\ last' = LineCall("line_compute", unit_value, qty, scale, rounding, r)
        /\ UNCHANGED <<discount, tax>>

\* calculator.compute_from_brute(brute, qty, scale): brute is kept in unit_value
ComputeFromBrute(brute, qty, scale, rounding) ==
    LET r == DetailCalculator_compute_from_brute(calculator, brute, qty, scale,
                                                 rounding)
    IN  /\ last' = LineCall("compute_from_brute", brute, qty, scale, rounding, r)
        /\ UNCHANGED <<discount, tax>>

DoLineCompute ==
    \E u \in LineUnitValues, q \in LineQuantities, s \in Scales,
       rm \in RoundingModes : LineCompute(u, q, s, rm)
DoComputeFromBrute ==
    \E b \in Brutes, q \in LineQuantities, s \in BruteScales,
       rm \in RoundingModes : ComputeFromBrute(b, q, s, rm)

\* the calculator: rates of 60 and 18 added, then the line computed
NextLine ==
    \/ \E m \in Modes : AddDiscount(dec(60, 1), m)
    \/ \E st \in Stages, m \in Modes : AddTax(dec(18, 1), st, m)
    \/ DoLineCompute
    \/ DoComputeFromBrute
SpecLine == Init /\ [][NextLine]_vars

\* every call that computes, on a calculator with rates of 60 and 18 added
NextCompute ==
    \/ \E m \in Modes : AddDiscount(dec(60, 1), m)
    \/ \E st \in Stages, m \in Modes : AddTax(dec(18, 1), st, m)
    \/ \E u \in LineUnitValues : Compute(u, dec(2, 1), None)
    \/ \E v \in LineUnitValues : UnDiscount(v, dec(2, 1))
    \/ \E st \in Stages, t \in {dec(-1, 1), dec(50, 1)} : StageTax(st, t, dec(2, 1))
    \/ \E u \in LineUnitValues : Tax(u, dec(2, 1))
    \/ \E q \in {dec(-1, 1), dec(2, 1)} : UnTax(dec(100, 1), q)
    \/ \E m \in Modes : LineTax(dec(50, 1), dec(2, 1), dec(10, 1), m)
    \/ \E t \in {zero, hundred}, v \in {zero, hundred} : Ratio(t, v)
    \/ \E u \in LineUnitValues, q \in {zero, dec(2, 1)} :
          LineCompute(u, q, 2, "HalfEven")
    \/ \E b \in {dec(-1, 1), dec(100, 1)} :
          ComputeFromBrute(b, dec(2, 1), 2, "HalfEven")
SpecCompute == Init /\ [][NextCompute]_vars

----------------------------------------------------------------------------
(* The adds alone, with few amounts *)

\* the two accumulators filled by add_discount and add_tax
NextOrder ==
    \/ DoAddDiscount
    \/ \E a \in {dec(-1, 1), dec(18, 1)}, st \in Stages, m \in Modes :
          AddTax(a, st, m)
SpecOrder == Init /\ [][NextOrder]_vars

----------------------------------------------------------------------------
(* Calculation::round, applied by the caller to a Calculation it was given *)

\* scales a caller hands to Calculation::round
RoundScales == {0, 1, 2}
\* unit values whose line figures have three decimal places
RoundUnitValues == {dec(125, 1000), dec(50, 1)}

\* the Calculation returned by the last call .round(scale): calc is the
\* Calculation round was called on, out the new one it returns
CalculationRound(scale, rounding) ==
    /\ last.op \in {"line_compute", "round"}
    /\ last.err = "None"
    /\ last' = LineCall("round", last.unit_value, last.qty, scale, rounding,
                        CalcOk(last.out[1],
                               Calculation_round(last.out[1], scale, rounding)))
    /\ UNCHANGED <<discount, tax>>

DoCalculationRound ==
    \E s \in RoundScales, rm \in RoundingModes : CalculationRound(s, rm)

\* a line computed at full scale, then rounded by the caller
NextRound ==
    \/ \E m \in Modes : AddDiscount(dec(60, 1), m)
    \/ \E st \in Stages : AddTax(dec(18, 1), st, "Percentual")
    \/ \E u \in RoundUnitValues, rm \in RoundingModes :
          LineCompute(u, dec(2, 1), -1, rm)
    \/ DoCalculationRound
SpecRound == Init /\ [][NextRound]_vars

----------------------------------------------------------------------------
(* Claims about the add calls, under SpecAdd *)

AddOps == {"add_discount", "add_discount_from_f64", "add_tax"}
DiscountAddOps == {"add_discount", "add_discount_from_f64"}

\* C1: the cumulative percentual of the Discount Accumulator never exceeds 100;
\* a Percentual add that would take it over 100 is rejected.
C1_PercentualAtMost100 == ~gt(discount.percentual, hundred)

\* C2: a fresh DiscountComputer and the three stages of a fresh TaxComputer hold
\* zero in every field, and after any adds, accepted or rejected, every field of
\* every accumulator is >= 0.
C2_FieldsNonNegative ==
    /\ ~lt(discount.percentual, zero)
    /\ ~lt(discount.amount_line, zero)
    /\ ~lt(discount.amount_unit, zero)
    /\ \A s \in Stages :
          /\ ~lt(stage_of(tax, s).percentuals, zero)
          /\ ~lt(stage_of(tax, s).amount_line, zero)
          /\ ~lt(stage_of(tax, s).amount_unit, zero)
    /\ last.op = "new" =>
          /\ discount.percentual = zero
          /\ discount.amount_line = zero
          /\ discount.amount_unit = zero
          /\ \A s \in Stages :
                /\ stage_of(tax, s).percentuals = zero
                /\ stage_of(tax, s).amount_line = zero
                /\ stage_of(tax, s).amount_unit = zero

\* C2 witness: a negative add was just rejected on accumulators that hold rates
C2_Witness ==
    /\ last.op \in AddOps
    /\ last.err = "NegativeValue"
    /\ gt(discount.amount_unit, zero)
    /\ gt(tax.over_tax.percentuals, zero)

\* C3: an add of a negative amount, in any mode and stage and from any state,
\* returns NegativeValue and leaves every field of every accumulator unchanged.
C3_NegativeAddRejected ==
    [][(last'.op \in AddOps /\ lt(last'.value, zero))
          => /\ last'.err = "NegativeValue"
             /\ discount' = discount
             /\ tax' = tax]_vars

\* C3 witness: a negative tax add rejected by a TaxComputer that holds rates
C3_Witness ==
    /\ last.op = "add_tax"
    /\ lt(last.value, zero)
    /\ last.err = "NegativeValue"
    /\ tax # TaxComputer_new
    /\ discount # DiscountComputer_new

\* C4: a non-negative add the percentual cap does not reject returns no error and
\* adds the amount to the one field its mode (and stage) selects; every other
\* field of every accumulator keeps its value.  Tax percentuals have no cap.
C4_AddIncreasesSelectedField ==
    [][LET field(acc, mode) ==
               CASE mode = "Percentual" ->
                       IF "percentual" \in DOMAIN acc
                       THEN "percentual" ELSE "percentuals"
                 [] mode = "AmountLine" -> "amount_line"
                 [] mode = "AmountUnit" -> "amount_unit"
           added(acc, mode, v) ==
               [acc EXCEPT ![field(acc, mode)] = plus(acc[field(acc, mode)], v)]
           owner(stage) ==
               CASE stage = "OverTaxable" -> "over_taxable"
                 [] stage = "OverTax" -> "over_tax"
                 [] stage = "OverTaxIgnorable" -> "over_tax_ignorable"
       IN  (/\ last'.op \in AddOps
            /\ ~is_nan(last'.value)
            /\ ~lt(last'.value, zero)
            /\ last'.err # "OverMaxDiscount")
              => /\ last'.err = "None"
                 /\ last'.op \in DiscountAddOps =>
                       /\ discount' = added(discount, last'.mode, last'.value)
                       /\ tax' = tax
                 /\ last'.op = "add_tax" =>
                       /\ tax' = [tax EXCEPT ![owner(last'.stage)] =
                                     added(tax[owner(last'.stage)], last'.mode,
                                           last'.value)]
                       /\ discount' = discount]_vars

\* C4 witness: 18 and 10 were both accepted as OverTaxable percentuals
C4_Witness ==
    /\ last.op = "add_tax"
    /\ last.err = "None"
    /\ last.stage = "OverTaxable"
    /\ last.mode = "Percentual"
    /\ tax.over_taxable.percentuals = dec(28, 1)

----------------------------------------------------------------------------
(* Claims about the DiscountComputer, under SpecDiscount *)

\* C5: whenever Discount.compute succeeds, the discount value it returns is
\* unit_value*qty*percentual/100 + amount_per_unit*qty + amount_per_line.
C5_DiscountValueFormula ==
    (last.op = "compute" /\ last.err = "None")
        => times(hundred, last.out[1])
             = plus(times(times(last.unit_value, last.qty), discount.percentual),
                    times(hundred,
                          plus(times(discount.amount_unit, last.qty),
                               discount.amount_line)))

\* C5 witness: a successful compute for two units with the three rates present
C5_Witness ==
    /\ last.op = "compute"
    /\ last.err = "None"
    /\ last.qty = dec(2, 1)
    /\ gt(last.unit_value, zero)
    /\ gt(discount.percentual, zero)
    /\ gt(discount.amount_unit, zero)
    /\ gt(discount.amount_line, zero)

\* C6: Discount.compute fails with OverMaxDiscount whenever the discount value
\* exceeds unit_value*qty*max_discount_allowed/100 (max_discount_allowed = 100
\* when omitted) and does not fail so when the discount value equals that cap.
C6_OverMaxDiscountAtCap ==
    LET max == unwrap_or(last.max, hundred)
        cap == over(times(times(last.unit_value, last.qty), max), hundred)
        dv == discount_value(discount, last.unit_value, last.qty)
    IN  (/\ last.op = "compute"
         /\ ~lt(last.unit_value, zero)
         /\ ~lt(last.qty, zero)
         /\ ~lt(max, zero))
            => /\ gt(dv, cap) => last.err = "OverMaxDiscount"
               /\ dv = cap => last.err # "OverMaxDiscount"

\* C8: when compute(unit_value, qty) succeeds with discount value d, un_discount
\* of unit_value*qty - d and the same qty returns the discountable value
\* unit_value*qty and the removed discount d.
C8_DiscountRoundTrip ==
    last.op = "un_discount" =>
        \A u \in UnitValues :
            LET r == compute(discount, u, last.qty, None)
            IN  (/\ ~lt(u, zero)
                 /\ ~lt(last.qty, zero)
                 /\ r.err = "None"
                 /\ last.unit_value = minus(times(u, last.qty), r.out[1]))
                    => /\ last.err = "None"
                       /\ last.out[1] = times(u, last.qty)
                       /\ last.out[2] = r.out[1]

----------------------------------------------------------------------------
(* Claims about the forward computations, under SpecForward *)

\* C7: Discount.compute with a negative unit_value, qty or max_discount_allowed,
\* and TaxStage.tax, TaxComputer.tax and line_tax with a negative taxable or
\* qty, return NegativeValue and no value, whatever rates are accumulated.
C7_NegativeInputRejected ==
    /\ (/\ last.op = "compute"
        /\ \/ lt(last.unit_value, zero)
           \/ lt(last.qty, zero)
           \/ (last.max # None /\ lt(last.max, zero)))
          => (last.err = "NegativeValue" /\ last.out = <<>>)
    /\ (/\ last.op \in {"stage_tax", "tax", "line_tax"}
        /\ (lt(last.unit_value, zero) \/ lt(last.qty, zero)))
          => (last.err = "NegativeValue" /\ last.out = <<>>)

\* C7 witness: the TaxComputer, holding rates, rejected a negative quantity
C7_Witness ==
    /\ last.op = "tax"
    /\ ~lt(last.unit_value, zero)
    /\ lt(last.qty, zero)
    /\ last.err = "NegativeValue"
    /\ tax # TaxComputer_new
    /\ discount # DiscountComputer_new

----------------------------------------------------------------------------
(* Claims about the TaxComputer, under SpecTax *)

\* C9: for taxable > 0 and qty >= 0, TaxStage.tax returns
\* (taxable*percentual/100 + amount_per_unit)*qty + amount_per_line.
C9_StageTaxFormula ==
    (/\ last.op = "stage_tax"
     /\ gt(last.unit_value, zero)
     /\ ~lt(last.qty, zero))
        => /\ last.err = "None"
           /\ times(hundred, last.out[1])
                = LET st == stage_of(tax, last.stage)
                  IN  plus(times(plus(times(last.unit_value, st.percentuals),
                                      times(hundred, st.amount_unit)),
                                 last.qty),
                           times(hundred, st.amount_line))

\* C9 witness: the tax of two units by a stage holding a percentual and a
\* per-line amount
C9_Witness ==
    /\ last.op = "stage_tax"
    /\ last.err = "None"
    /\ gt(last.unit_value, zero)
    /\ last.qty = dec(2, 1)
    /\ gt(stage_of(tax, last.stage).percentuals, zero)
    /\ gt(stage_of(tax, last.stage).amount_line, zero)

\* C10: with a taxable / unit value of exactly zero and qty >= 0, TaxStage.tax
\* and TaxComputer.tax return exactly 0 and no error, whatever the stages hold.
C10_ZeroTaxableIsZeroTax ==
    (/\ last.op \in {"stage_tax", "tax"}
     /\ last.unit_value = zero
     /\ ~lt(last.qty, zero))
        => (last.err = "None" /\ last.out = <<zero>>)

\* C10 witness: the three-stage tax of a zero unit value, with a per-unit and a
\* per-line amount accumulated
C10_Witness ==
    /\ last.op = "tax"
    /\ last.unit_value = zero
    /\ last.qty = dec(2, 1)
    /\ last.err = "None"
    /\ gt(tax.over_taxable.amount_unit, zero)
    /\ gt(tax.over_tax.amount_line, zero)

\* C11 as stated: for unit_value >= 0 and qty >= 0 TaxComputer.tax returns
\* t1 + t2 + t3 with t1 = over_taxable.tax(unit_value, qty), t2 =
\* over_tax.tax(unit_value + t1, qty), t3 = over_tax_ignorable.tax(unit_value,
\* qty), so that over_tax_ignorable never enters t2, and with only over_taxable
\* configured the result is
\* (unit_value*percentual/100 + amount_per_unit)*qty + amount_per_line.
C11_TaxComposition ==
    LET formula(st, taxable, qty) ==
            plus(times(plus(over(times(taxable, st.percentuals), hundred),
                            st.amount_unit),
                       qty),
                 st.amount_line)
        stage(st, taxable, qty) ==
            IF taxable = zero THEN zero ELSE formula(st, taxable, qty)
        t1 == stage(tax.over_taxable, last.unit_value, last.qty)
        t2 == stage(tax.over_tax, plus(last.unit_value, t1), last.qty)
        t3 == stage(tax.over_tax_ignorable, last.unit_value, last.qty)
    IN  (/\ last.op = "tax"
         /\ ~lt(last.unit_value, zero)
         /\ ~lt(last.qty, zero))
            => /\ last.err = "None"
               /\ last.out = <<plus(plus(t1, t2), t3)>>
               /\ (/\ tax.over_tax = TaxStage_new
                   /\ tax.over_tax_ignorable = TaxStage_new)
                     => last.out
                          = <<formula(tax.over_taxable, last.unit_value, last.qty)>>

\* C11 amended: as C11, the result with only over_taxable configured being
\* (unit_value*percentual/100 + amount_per_unit)*qty + amount_per_line for
\* unit_value > 0, and 0 for a unit_value of exactly zero.
C11_TaxCompositionPositive ==
    LET formula(st, taxable, qty) ==
            plus(times(plus(over(times(taxable, st.percentuals), hundred),
                            st.amount_unit),
                       qty),
                 st.amount_line)
        stage(st, taxable, qty) ==
            IF taxable = zero THEN zero ELSE formula(st, taxable, qty)
        t1 == stage(tax.over_taxable, last.unit_value, last.qty)
        t2 == stage(tax.over_tax, plus(last.unit_value, t1), last.qty)
        t3 == stage(tax.over_tax_ignorable, last.unit_value, last.qty)
    IN  (/\ last.op = "tax"
         /\ ~lt(last.unit_value, zero)
         /\ ~lt(last.qty, zero))
            => /\ last.err = "None"
               /\ last.out = <<plus(plus(t1, t2), t3)>>
               /\ (/\ tax.over_tax = TaxStage_new
                   /\ tax.over_tax_ignorable = TaxStage_new)
                     => last.out
                          = IF gt(last.unit_value, zero)
                            THEN <<formula(tax.over_taxable, last.unit_value,
                                           last.qty)>>
                            ELSE <<zero>>

\* C11 witness: the tax of two units of 50 with 18% over the taxable and 10%
\* over the tax: 18 + 13.6
C11_Witness ==
    /\ last.op = "tax"
    /\ last.unit_value = dec(50, 1)
    /\ last.qty = dec(2, 1)
    /\ tax.over_taxable.percentuals = dec(18, 1)
    /\ tax.over_tax.percentuals = dec(10, 1)
    /\ last.out = <<dec(316, 10)>>

----------------------------------------------------------------------------
(* Claims about the inverse of the tax and the ratio, under SpecUnTax *)

\* C12: for every configuration of the three stages, unit_value x >= 0 and
\* qty > 0, un_tax of gross = x*qty + tax(x, qty) returns the net x*qty.
C12_TaxRoundTrip ==
    last.op = "un_tax" =>
        \A x \in Taxables :
            LET r == tax_of(tax, x, last.qty)
            IN  (/\ ~lt(x, zero)
                 /\ gt(last.qty, zero)
                 /\ r.err = "None"
                 /\ last.unit_value = plus(times(x, last.qty), r.out[1]))
                    => /\ last.err = "None"
                       /\ last.out = <<times(x, last.qty)>>

\* C13: with only over_taxable configured, taxable x > 0 and qty > 0, removing
\* the tax from x*qty + tax(x, qty) recovers the taxable value (the line value
\* x*qty; the unit value x is accepted too) exactly.
C13_SingleStageRoundTrip ==
    (/\ last.op = "un_tax"
     /\ tax.over_tax = TaxStage_new
     /\ tax.over_tax_ignorable = TaxStage_new) =>
        \A x \in Taxables :
            LET r == stage_tax(tax.over_taxable, x, last.qty)
            IN  (/\ gt(x, zero)
                 /\ gt(last.qty, zero)
                 /\ r.err = "None"
                 /\ last.unit_value = plus(times(x, last.qty), r.out[1]))
                    => /\ last.err = "None"
                       /\ last.out \in {<<times(x, last.qty)>>, <<x>>}

\* C14: ratio(taxed, tax) fails with DivisionByZero when both are exactly zero
\* and for every other pair of non-negative inputs returns 100*tax/(taxed+tax),
\* a value in [0, 100]; ratio(100, 0) = 0 and ratio(0, 100) = 100.
C14_Ratio ==
    (/\ last.op = "ratio"
     /\ ~lt(last.unit_value, zero)
     /\ ~lt(last.value, zero))
        => IF last.unit_value = zero /\ last.value = zero
           THEN last.err = "DivisionByZero" /\ last.out = <<>>
           ELSE /\ last.err = "None"
                /\ times(last.out[1], plus(last.unit_value, last.value))
                     = times(hundred, last.value)
                /\ ~lt(last.out[1], zero)
                /\ ~gt(last.out[1], hundred)
                /\ (last.unit_value = hundred /\ last.value = zero)
                      => last.out = <<zero>>
                /\ (last.unit_value = zero /\ last.value = hundred)
                      => last.out = <<hundred>>

\* C14 witness: the ratio of a tax of 50 in a taxed value of 100 is a third
C14_Witness ==
    /\ last.op = "ratio"
    /\ last.unit_value = dec(100, 1)
    /\ last.value = dec(50, 1)
    /\ last.out = <<dec(100, 3)>>
    /\ tax # TaxComputer_new

----------------------------------------------------------------------------
(* Claims about the DetailCalculator, under SpecLine *)

C17_WithoutDiscountFields ==
    (last.op = "line_compute" /\ last.err = "None")
        => LET c == last.calc[1]
           IN  /\ c.net_wout_disc = plus(c.net, c.discount)
               /\ c.brute_wout_disc = plus(c.brute, c.discount)
               /\ c.tax_wout_disc = plus(c.tax, c.discount)

\* C18: when compute(u, qty) succeeds for u >= 0 and qty > 0 with gross G,
\* compute_from_brute(G, qty) succeeds and returns a Calculation whose
\* unit_value is u and whose brute is G, within the tolerance of the rounding
\* (one unit of the last decimal place kept).
C18_GrossInversion ==
    last.op = "compute_from_brute" =>
        \A u \in LineUnitValues :
            LET f == DetailCalculator_compute(calculator, u, last.qty, last.scale,
                                              last.rounding)
                tol == dec(1, pow10(scale_of(last.scale)))
                near(x, y) == ~gt(minus(x, y), tol) /\ ~gt(minus(y, x), tol)
            IN  (/\ ~lt(u, zero)
                 /\ gt(last.qty, zero)
                 /\ f.err = "None"
                 /\ f.out[1].brute = last.unit_value)
                    => /\ last.err = "None"
                       /\ near(last.out[1].unit_value, u)
                       /\ near(last.out[1].brute, last.unit_value)

\* C19: compute never aborts: for every configuration, unit_value and qty,
\* qty = 0 and unit_value = 0 included, it returns a Calculation or an error.
C19_ComputeNeverPanics ==
    last.op = "line_compute" => last.err # "Panic"

----------------------------------------------------------------------------
(* Claims about every call that computes, under SpecCompute *)

ComputeOps ==
    {"compute", "un_discount", "stage_tax", "tax", "un_tax", "line_tax", "ratio",
     "line_compute", "compute_from_brute"}

\* C20: no call that computes, successful or failing (Discount.compute,
\* un_discount, TaxStage.tax, TaxComputer.tax, un_tax, line_tax, ratio, Line
\* compute, compute_from_brute), changes a field of an accumulator, and a call
\* repeated with equal arguments after such calls returns the same result.
C20_ComputeLeavesRates ==
    [][LET arguments(c) ==
               <<c.op, c.stage, c.mode, c.value, c.unit_value, c.qty, c.max,
                 IF "scale" \in DOMAIN c THEN <<c.scale, c.rounding>> ELSE <<>> >>
       IN  last'.op \in ComputeOps
              => /\ discount' = discount
                 /\ tax' = tax
                 /\ arguments(last') = arguments(last)
                       => (last'.err = last.err /\ last'.out = last.out)]_vars

\* C20 witness: a successful tax of two units asked of a calculator holding
\* discount and tax rates, which it still holds
C20_Witness ==
    /\ last.op = "tax"
    /\ last.err = "None"
    /\ last.unit_value = dec(50, 1)
    /\ gt(last.out[1], zero)
    /\ gt(tax.over_taxable.percentuals, zero)
    /\ discount # DiscountComputer_new

----------------------------------------------------------------------------
(* Claims about Calculation::round, under SpecRound *)

CalculationFields ==
    {"net", "brute", "tax", "discount", "net_wout_disc", "brute_wout_disc",
     "tax_wout_disc", "unit_value", "total_discount_percent"}

\* x is y rounded to scale decimal digits: a multiple of 10^-scale no further
\* than half of 10^-scale from y
rounded_to(x, y, scale) ==
    /\ pow10(scale) % x[2] = 0
    /\ ~gt(times(dec(2 * pow10(scale), 1), minus(x, y)), one)
    /\ ~gt(times(dec(2 * pow10(scale), 1), minus(y, x)), one)

\* C21: Calculation.round(scale) returns a new Calculation in which each of the
\* nine numeric fields is the original field rounded to scale decimal digits,
\* leaves the Calculation it was called on (and the accumulators) as they
\* were, and round(round(r, s), s) = round(r, s) for every scale s >= 0.
C21_RoundIdempotent ==
    [][(last'.op = "round" /\ last'.scale >= 0)
          => /\ last'.calc = last.out
             /\ discount' = discount
             /\ tax' = tax
             /\ DOMAIN last'.out[1] = CalculationFields
             /\ \A f \in CalculationFields :
                   rounded_to(last'.out[1][f], last'.calc[1][f], last'.scale)
             /\ \A rm \in RoundingModes :
                   Calculation_round(last'.out[1], last'.scale, rm) = last'.out[1]
             /\ (last.op = "round" /\ last.scale = last'.scale)
                   => last'.out = last.out]_vars

\* C21 witness: round(1) of a Calculation that round(1) returned, in which the
\* undiscounted net 0.25 of two units of 0.125 had become 0.2 or 0.3 and the
\* tax of 18% on it, 0.045, had become 0 or 0.1
C21_Witness ==
    /\ last.op = "round"
    /\ last.scale = 1
    /\ last.unit_value = dec(125, 1000)
    /\ last.calc[1].net_wout_disc \in {dec(2, 10), dec(3, 10)}
    /\ last.calc[1].tax_wout_disc \in {zero, dec(1, 10)}
    /\ tax.over_taxable.percentuals = dec(18, 1)
    /\ last.out = last.calc

----------------------------------------------------------------------------
(* Further claims about the DiscountComputer, under SpecDiscount *)

\* C22: un_discount treats a zero cumulative percentual as no percentual
\* adjustment: with percentual = 0, discounted >= 0 and qty >= 0 it returns
\* discountable = discounted + amount_per_line + amount_per_unit*qty and the
\* removed discount amount_per_line + amount_per_unit*qty; an all-zero
\* accumulator returns discountable = discounted and a removed discount of 0.
C22_ZeroPercentualInverse ==
    (/\ last.op = "un_discount"
     /\ discount.percentual = zero
     /\ ~lt(last.unit_value, zero)
     /\ ~lt(last.qty, zero))
        => LET fixed == plus(discount.amount_line,
                             times(discount.amount_unit, last.qty))
           IN  /\ last.err = "None"
               /\ last.out[1] = plus(last.unit_value, fixed)
               /\ last.out[2] = fixed

\* C27: with no discount configured (the three fields 0), compute(unit_value,
\* qty) succeeds with a discount value of 0 for every non-negative unit_value
\* and qty, however large unit_value*qty is: the range check of the derived
\* percentage never rejects an undiscounted line.
C27_UndiscountedLineAccepted ==
    (/\ last.op = "compute"
     /\ discount = DiscountComputer_new
     /\ ~lt(last.unit_value, zero)
     /\ ~lt(last.qty, zero)
     /\ ~lt(unwrap_or(last.max, hundred), zero))
        => (last.err = "None" /\ last.out[1] = zero)

----------------------------------------------------------------------------
(* Further claims about the inverse of the tax, under SpecUnTax *)

\* C23: for every configuration and qty >= 0, un_tax(taxed, qty) returns
\* (taxed - b*d + b + e + h - c*(d + 1) - f - i) / (a*d + a + g + d + 1), the
\* equation of its documentation: a, d, g are the percentuals of over_taxable,
\* over_tax and over_tax_ignorable divided by 100, b, e, h their per-unit
\* amounts times qty, and c, f, i their per-line amounts.
C23_UnTaxDocumentedEquation ==
    (last.op = "un_tax" /\ ~lt(last.qty, zero))
        => LET a == over(tax.over_taxable.percentuals, hundred)
               b == times(tax.over_taxable.amount_unit, last.qty)
               c == tax.over_taxable.amount_line
               d == over(tax.over_tax.percentuals, hundred)
               e == times(tax.over_tax.amount_unit, last.qty)
               f == tax.over_tax.amount_line
               g == over(tax.over_tax_ignorable.percentuals, hundred)
               h == times(tax.over_tax_ignorable.amount_unit, last.qty)
               i == tax.over_tax_ignorable.amount_line
               numerator ==
                   minus(minus(minus(plus(plus(plus(minus(last.unit_value,
                                                          times(b, d)),
                                                    b),
                                               e),
                                          h),
                                     times(c, plus(d, one))),
                               f),
                         i)
               denominator ==
                   plus(plus(plus(plus(times(a, d), a), g), d), one)
           IN  /\ last.err = "None"
               /\ times(last.out[1], denominator) = numerator

\* C24: the removal of a tax never yields a negative amount as a success:
\* un_tax(taxed, qty) fails with NegativeValue when taxed < 0 or qty < 0, and
\* also when taxed is smaller than the configured fixed components; every
\* successful result is >= 0.
C24_UnTaxNeverNegative ==
    last.op = "un_tax"
        => /\ (lt(last.unit_value, zero) \/ lt(last.qty, zero))
                 => (last.err = "NegativeValue" /\ last.out = <<>>)
           /\ last.err = "None" => ~lt(last.out[1], zero)

----------------------------------------------------------------------------
(* Further claims about the DetailCalculator, under SpecLine *)

C26_BruteComposition ==
    last.op = "compute_from_brute"
        => LET n == un_tax(tax, last.unit_value, last.qty)
               u == un_discount(discount, n.out[1], last.qty)
               c == DetailCalculator_compute(calculator, u.out[1], last.qty,
                                             last.scale, last.rounding)
               again == DetailCalculator_compute(calculator,
                                                 last.out[1].unit_value, last.qty,
                                                 last.scale, last.rounding)
           IN  /\ n.err \notin {"None", "Panic"}
                     => (last.err = "Other" /\ last.cause = <<"un_tax", n.err>>)
               /\ (n.err = "None" /\ u.err \notin {"None", "Panic"})
                     => /\ last.err = "Other"
                        /\ last.cause = <<"un_discount", u.err>>
               /\ (n.err = "None" /\ u.err = "None")
                     => /\ last.err = c.err
                        /\ last.cause = c.cause
                        /\ last.out = c.out
               /\ last.err = "None"
                     => (again.err = "None" /\ again.out = last.out)

\* C26 amended: the same composition and the same errors; a successful result
\* is compute of the unit value un_discount recovered, rounded to the scale
\* after it was computed: before the rounding its unit_value is that value and
\* its brute is net + tax, and r = compute(r.unit_value, qty) when the
\* recovered unit value has no more decimal places than the scale.
C26_BruteCompositionRounded ==
    last.op = "compute_from_brute"
        => LET n == un_tax(tax, last.unit_value, last.qty)
               u == un_discount(discount, n.out[1], last.qty)
               c == DetailCalculator_compute(calculator, u.out[1], last.qty,
                                             last.scale, last.rounding)
               again == DetailCalculator_compute(calculator,
                                                 last.out[1].unit_value, last.qty,
                                                 last.scale, last.rounding)
           IN  /\ n.err \notin {"None", "Panic"}
                     => (last.err = "Other" /\ last.cause = <<"un_tax", n.err>>)
               /\ (n.err = "None" /\ u.err \notin {"None", "Panic"})
                     => /\ last.err = "Other"
                        /\ last.cause = <<"un_discount", u.err>>
               /\ (n.err = "None" /\ u.err = "None")
                     => /\ last.err = c.err
                        /\ last.cause = c.cause
                        /\ last.out = c.out
               /\ last.err = "None"
                     => /\ last.calc[1].unit_value = u.out[1]
                        /\ last.calc[1].brute
                             = plus(last.calc[1].net, last.calc[1].tax)
                        /\ last.out[1]
                             = Calculation_round(last.calc[1],
                                                 scale_of(last.scale),
                                                 last.rounding)
                        /\ fits_scale(u.out[1], scale_of(last.scale))
                              => (again.err = "None" /\ again.out = last.out)

\* C26 witness: a gross of 10 for two units with an 18% tax and a 60% discount
\* is answered with a Calculation whose unit value, 12.2549..., was rounded
C26_Witness ==
    /\ last.op = "compute_from_brute"
    /\ last.unit_value = dec(10, 1)
    /\ last.qty = dec(2, 1)
    /\ tax.over_taxable.percentuals = dec(18, 1)
    /\ discount.percentual = dec(60, 1)
    /\ last.err = "None"
    /\ last.out[1].unit_value # last.calc[1].unit_value

\* C28: a discount never increases a figure of the line: in every Calculation
\* compute returns for unit_value >= 0 and qty > 0, before rounding,
\* discount >= 0, 0 <= net <= net_wout_disc, 0 <= tax <= tax_wout_disc and
\* brute <= brute_wout_disc, whatever discount and tax are configured.
C28_DiscountNeverIncreases ==
    (/\ last.op = "line_compute"
     /\ ~lt(last.unit_value, zero)
     /\ gt(last.qty, zero)
     /\ last.err = "None")
        => LET c == last.calc[1]
           IN  /\ ~lt(c.discount, zero)
               /\ ~lt(c.net, zero)
               /\ ~gt(c.net, c.net_wout_disc)
               /\ ~lt(c.tax, zero)
               /\ ~gt(c.tax, c.tax_wout_disc)
               /\ ~gt(c.brute, c.brute_wout_disc)

\* C28 witness: two units of 50 with 60 off the line and 18% over the tax:
\* net 40 of 100, tax 7.2 of 18
C28_Witness ==
    /\ last.op = "line_compute"
    /\ last.err = "None"
    /\ discount.amount_line = dec(60, 1)
    /\ tax.over_tax.percentuals = dec(18, 1)
    /\ last.calc[1].net = dec(40, 1)
    /\ last.calc[1].net_wout_disc = dec(100, 1)
    /\ last.calc[1].tax = dec(72, 10)
    /\ last.calc[1].tax_wout_disc = dec(18, 1)

----------------------------------------------------------------------------
(* Claims about the order of the adds, under SpecOrder *)

\* amounts of two adds made one after the other
OrderDiscountAmounts == {dec(-1, 1), dec(40, 1), dec(70, 1), dec(101, 1)}
OrderTaxAmounts == {dec(-1, 1), dec(10, 1)}

\* C29: adds commute: from every accumulator state, two add calls (amount,
\* mode and, for taxes, stage) made in either order are accepted or rejected
\* alike and leave the same accumulator, for the Discount Accumulator and for
\* the Tax Orchestrator; so any two orderings of the same adds end in the same
\* state, and what is computed later does not depend on the order.
C29_AddsCommute ==
    /\ \A a1 \in OrderDiscountAmounts, a2 \in OrderDiscountAmounts,
          m1 \in Modes, m2 \in Modes :
          LET r1 == add_discount(discount, a1, m1)
              r12 == add_discount(r1.self, a2, m2)
              r2 == add_discount(discount, a2, m2)
              r21 == add_discount(r2.self, a1, m1)
          IN  /\ r12.self = r21.self
              /\ r1.err = r21.err
              /\ r2.err = r12.err
    /\ \A a1 \in OrderTaxAmounts, a2 \in OrderTaxAmounts,
          s1 \in Stages, s2 \in Stages, m1 \in Modes, m2 \in Modes :
          LET r1 == add_tax(tax, a1, s1, m1)
              r12 == add_tax(r1.self, a2, s2, m2)
              r2 == add_tax(tax, a2, s2, m2)
              r21 == add_tax(r2.self, a1, s1, m1)
          IN  /\ r12.self = r21.self
              /\ r1.err = r21.err
              /\ r2.err = r12.err

\* C29 witness: a per-line discount of 40 added after a percentual of 40, and
\* a tax added, on accumulators two further adds still fit
C29_Witness ==
    /\ last.op = "add_discount"
    /\ last.err = "None"
    /\ last.mode = "AmountLine"
    /\ discount.percentual = dec(40, 1)
    /\ discount.amount_line = dec(40, 1)
    /\ tax.over_tax.amount_unit = dec(18, 1)

----------------------------------------------------------------------------
(* Further claims about the TaxComputer, under SpecTax *)

\* C30: line_tax agrees with the accumulated path: for every mode, value >= 0,
\* taxable > 0 and qty >= 0, line_tax(taxable, qty, value, mode) equals
\* TaxStage.tax(taxable, qty) of a fresh stage to which only that value was
\* added in that mode: a per-line amount is charged once whatever the qty, a
\* per-unit amount is multiplied by qty.
C30_LineTaxAgreesWithStage ==
    (/\ last.op = "line_tax"
     /\ gt(last.unit_value, zero)
     /\ ~lt(last.qty, zero)
     /\ ~lt(last.value, zero))
        => LET added == stage_add(TaxStage_new, last.value, last.mode)
               r == stage_tax(added.self, last.unit_value, last.qty)
           IN  /\ added.err = "None"
               /\ r.err = "None"
               /\ last.err = "None"
               /\ last.out = r.out

====
